---- MODULE Spec2Model ----
(***************************************************************************)
(* File transfer over a Twilio DataTrack (src/src/index.js).               *)
(*                                                                         *)
(* Sender: the file input's 'change' listener starts sendFile, an async    *)
(* function that sends one JSON text frame and then, per chunk, awaits a   *)
(* FileReader load, sends the chunk and awaits a timer.                    *)
(* Receiver: the 'message' listener that trackAdded installs on a data     *)
(* track, with its four closure variables.                                 *)
(* The data track carries the messages in send order and without loss.     *)
(***************************************************************************)
EXTENDS Integers, Sequences, FiniteSets, TLC

(* ---------------------------- bounds ----------------------------------- *)
MaxSize == 3          \* longest file, in bytes
MaxChunkSize == 2     \* largest chunkSize given in the URL
MaxSessions == 2      \* number of 'change' events on the file input
MaxInFlight == 2      \* messages sent and not yet handled by the receiver
MaxBytes == 5         \* bytes of all the files picked, together
MaxMore == 3          \* sendFile invocations in the specification with more of them
MaxChunks == 4        \* chunks one sendFile sends before the model stops following it
MaxParamLen == 2      \* longest parameter value in the URL, in characters

(* ------------------------- program constants --------------------------- *)
DEFAULT_CHUNK_INTERVAL_MS == 0
DEFAULT_CHUNK_SIZE_BYTES == 16384

\* JavaScript values that are no integer of the model. Every number the files
\* and URLs of the model produce is >= 0; these three stand below them and
\* are only ever tested for equality.
NaN == -1
Infinity == -2
JSONnull == -3

(* ------------------------------ state ---------------------------------- *)
VARIABLES
  params,       \* the Map of URL parameters getURLParameters() returns
  sessions,     \* the sendFile invocations, in the order they were started
  channel,      \* messages passed to dataTrack.send and not yet handled
  fileInfo,     \* receiver closure variable (null or the parsed metadata)
  nChunks,      \* receiver closure variable
  chunksSoFar,  \* receiver closure variable
  fileBuf,      \* receiver closure variable: the messages pushed so far
  download,     \* href and download of the <a id="download"> element
  room,         \* the sender's connection: "none", "connecting" or "connected";
                \* the transfer protocol starts with both pages in the room
  interleaved,  \* history: a sendFile started while an earlier one had chunks left
  since,        \* history: what was handled since the last frame parsed as metadata
  last,         \* history: the last message handled and what the listener did
  nCompleted,   \* history: how many files the receiver has exposed
  cut           \* history: what each unfinished sendFile had sent at the last disconnect

vars == <<params, sessions, channel, fileInfo, nChunks, chunksSoFar, fileBuf,
          download, interleaved, since, last, nCompleted, room, cut>>

senderVars == <<params, sessions, interleaved>>
receiverVars == <<fileInfo, nChunks, chunksSoFar, fileBuf, download, since,
                  last, nCompleted>>

pageVars == <<room, cut>>

null == [null |-> TRUE]

(* --------------------------- pure helpers ------------------------------ *)
\* The File objects the user can pick: one file of each size, each with its
\* own name. sendFile and the listener never read a byte's value, so the
\* bytes of a file are taken pairwise distinct, and distinct from those of
\* the other files: a byte that is lost, repeated, moved or taken from
\* another file shows.
FileName(L) == <<"f", L>>
Content(L) == [i \in 1..L |-> 10 * L + i]
Files == {[name |-> FileName(L), size |-> L, bytes |-> Content(L)] : L \in 0..MaxSize}

\* Characters of a parameter value: a decimal digit is its own value, and
\* NonDigit is any other character the URL pattern lets through.
NonDigit == 10
IsDigit(c) == c \in 0..9

\* Decimal digit strings, as the URL carries numbers.
RECURSIVE ToDigits(_)
ToDigits(n) == IF n < 10 THEN <<n>> ELSE Append(ToDigits(n \div 10), n % 10)

\* The value of a string of decimal digits.
RECURSIVE Decimal(_)
Decimal(str) ==
  IF Len(str) = 0 THEN 0
  ELSE 10 * Decimal(SubSeq(str, 1, Len(str) - 1)) + str[Len(str)]

\* Number(str) on a string of digits and other characters: NaN unless it is
\* all digits.
Number(str) ==
  IF \A i \in 1..Len(str) : IsDigit(str[i]) THEN Decimal(str) ELSE NaN

EmptyMap == [k \in {} |-> <<>>]

\* getURLParameters(): the name=value pairs of the page URL.
getURLParameters ==
  {EmptyMap} \cup {[k \in {"chunkSize"} |-> ToDigits(n)] : n \in 1..MaxChunkSize}

\* The strings of 1..n characters of S.
RECURSIVE StringsUpTo(_, _)
StringsUpTo(S, n) ==
  IF n = 0 THEN {}
  ELSE LET shorter == StringsUpTo(S, n - 1)
       IN {<<c>> : c \in S} \cup {Append(t, c) : t \in shorter, c \in S}

\* getURLParameters() over every URL whose pairs are chunkSize and
\* chunkInterval with values of digits and other characters.
AnyURLParameters ==
  LET values == StringsUpTo({0, 1, NonDigit}, MaxParamLen)
  IN UNION {[keys -> values] : keys \in SUBSET {"chunkSize", "chunkInterval"}}

\* null in an arithmetic expression is 0.
ToNumber(v) == IF v = JSONnull THEN 0 ELSE v

PlusStuck(a, b) == a

\* a + b for a, b >= 0 or NaN.
Plus(a, b) == IF a = NaN \/ b = NaN THEN NaN ELSE a + b

\* Math.ceil(a / b) for a >= 0 and b >= 0 or NaN: x / 0 is Infinity, 0 / 0 NaN.
Ceil(a, b) ==
  IF a = NaN \/ b = NaN THEN NaN
  ELSE IF b = 0 THEN (IF a = 0 THEN NaN ELSE Infinity)
  ELSE (a + b - 1) \div b

\* An argument of Blob.slice: NaN is converted to 0.
ToLong(x) == IF x = NaN THEN 0 ELSE x

Min(a, b) == IF a < b THEN a ELSE b

\* Blob.slice(start, end) for 0 <= start <= end: the bytes [start, min(end, size)).
Slice(bytes, start, end) == SubSeq(bytes, Min(start, Len(bytes)) + 1, Min(end, Len(bytes)))

getFileChunkShort(file, offset, chunkSize) ==
  Slice(file.bytes, offset, ToLong(Plus(offset, chunkSize)) - 1)

\* getFileChunk(file, offset, chunkSize): what the FileReader's load event carries.
getFileChunk(file, offset, chunkSize) ==
  Slice(file.bytes, offset, ToLong(Plus(offset, chunkSize)))

\* A number as JSON.stringify writes it: NaN and Infinity become null.
JSONnumber(x) == IF x = NaN \/ x = Infinity THEN JSONnull ELSE x

JSONstringifySwapped(chunkSize, name, size) ==
  << <<"chunkSize", JSONnumber(size)>>, <<"name", name>>, <<"size", JSONnumber(chunkSize)>> >>

\* JSON.stringify({chunkSize, name, size}): the members in the order written.
JSONstringify(chunkSize, name, size) ==
  << <<"chunkSize", JSONnumber(chunkSize)>>, <<"name", name>>, <<"size", JSONnumber(size)>> >>

JSONmember(text, key) ==
  LET i == CHOOSE j \in 1..Len(text) : text[j][1] = key IN text[i][2]

\* JSON.parse of such a text: an object with the members found by key.
JSONparse(text) ==
  [name |-> JSONmember(text, "name"),
   size |-> JSONmember(text, "size"),
   chunkSize |-> JSONmember(text, "chunkSize")]

\* A message on the data track: a string or an ArrayBuffer.
TextMessage(text) == [type |-> "text", text |-> text, bytes |-> <<>>]
BinaryMessage(bytes) == [type |-> "binary", text |-> <<>>, bytes |-> bytes]

(* ------------------------------ sender --------------------------------- *)
\* dataTrack.send(m): the message goes out to the room the page is connected
\* to, and to nobody when it is connected to none.
Send(ch, m) == IF room = "connected" THEN Append(ch, m) ELSE ch

\* chunkSize as sendFile resolves it from the URL parameters.
ResolveChunkSize(p) ==
  IF "chunkSize" \in DOMAIN p THEN Number(p["chunkSize"]) ELSE DEFAULT_CHUNK_SIZE_BYTES

\* chunkInterval as sendFile resolves it from the URL parameters.
ResolveChunkInterval(p) ==
  IF "chunkInterval" \in DOMAIN p THEN Number(p["chunkInterval"])
  ELSE DEFAULT_CHUNK_INTERVAL_MS

LoopTestInclusive(offset, size) == offset # NaN /\ offset <= size

\* The for loop's test; a comparison with NaN is false.
LoopTest(offset, size) == offset # NaN /\ offset < size

\* The loop test and where sendFile is at its next await.
LoopEntry(offset, size) == IF LoopTest(offset, size) THEN "reading" ELSE "done"

\* Whether a sendFile invocation has a chunk left to send.
ChunksLeft(ses) ==
  \/ ses.pc = "reading"
  \/ ses.pc = "waiting" /\ LoopTest(Plus(ses.offset, ses.chunkSize), ses.file.size)

\* The sizes of the files of the first k invocations, added up.
RECURSIVE BytesPicked(_)
BytesPicked(k) == IF k = 0 THEN 0 ELSE BytesPicked(k - 1) + sessions[k].file.size

\* 'change' on the file input: sendFile runs up to its first await. It sends
\* the metadata frame and, if the loop is entered, starts the first read.
\* sent is the history of the invocation's dataTrack.send calls. The model
\* follows at most `most` invocations.
sendFile(file, most) ==
  /\ Len(sessions) < most
  /\ BytesPicked(Len(sessions)) + file.size <= MaxBytes
  /\ Len(channel) < MaxInFlight
  /\ LET size == file.size
         chunkSize == ResolveChunkSize(params)
         metadata == TextMessage(JSONstringify(chunkSize, file.name, size))
     IN /\ channel' = Send(channel, metadata)
        /\ sessions' = Append(sessions,
             [file |-> file, chunkSize |-> chunkSize,
              chunkInterval |-> ResolveChunkInterval(params),
              nChunks |-> Ceil(size, chunkSize),
              offset |-> 0, chunksSoFar |-> 0,
              pc |-> LoopEntry(0, size),
              sent |-> <<metadata>>])
  /\ interleaved' = (interleaved \/ \E s \in 1..Len(sessions) : ChunksLeft(sessions[s]))
  /\ UNCHANGED <<params, receiverVars, pageVars>>

Change(file) == sendFile(file, MaxSessions)

\* The same listener where a third file may be picked.
ChangeMore(file) == sendFile(file, MaxMore)

\* The FileReader's 'load' event resolves getFileChunk: the chunk is sent,
\* the progress counter is incremented and the wait timer is set.
ReadLoaded(s) ==
  /\ sessions[s].pc = "reading"
  /\ sessions[s].chunksSoFar < MaxChunks
  /\ Len(channel) < MaxInFlight
  /\ LET ses == sessions[s]
         chunk == BinaryMessage(getFileChunk(ses.file, ses.offset, ses.chunkSize))
     IN /\ channel' = Send(channel, chunk)
        /\ sessions' = [sessions EXCEPT ![s].chunksSoFar = @ + 1,
                                        ![s].pc = "waiting",
                                        ![s].sent = Append(@, chunk)]
  /\ UNCHANGED <<params, interleaved, receiverVars, pageVars>>

\* The timer of wait(chunkInterval) fires: offset += chunkSize, loop test,
\* and either the next read starts or sendFile returns. chunkInterval only
\* sets how long the timer takes; any delay is a step that happens later.
TimerFired(s) ==
  /\ sessions[s].pc = "waiting"
  /\ LET ses == sessions[s]
         offset == Plus(ses.offset, ses.chunkSize)
     IN sessions' = [sessions EXCEPT ![s].offset = offset,
                                     ![s].pc = LoopEntry(offset, ses.file.size)]
  /\ UNCHANGED <<params, channel, interleaved, receiverVars, pageVars>>

\* The FileReader's 'error' event, for which getFileChunk has no listener:
\* its promise is never settled and sendFile stays at its await.
ReadFailed(s) ==
  /\ sessions[s].pc = "reading"
  /\ sessions' = [sessions EXCEPT ![s].pc = "suspended"]
  /\ UNCHANGED <<params, channel, interleaved, receiverVars, pageVars>>

\* Click on the connect button, enabled while the page is in no room.
ConnectClick ==
  /\ room = "none"
  /\ room' = "connecting"
  /\ UNCHANGED <<senderVars, channel, receiverVars, cut>>

\* connect() resolves.
Connected ==
  /\ room = "connecting"
  /\ room' = "connected"
  /\ UNCHANGED <<senderVars, channel, receiverVars, cut>>

\* Click on the disconnect button, or the room's 'disconnected' event: the
\* connection attempt is cancelled, the room left and the buttons reset.
\* Nothing refers to the sendFile invocations. cut records how many
\* messages each invocation with chunks left had sent by now.
Disconnect ==
  /\ room # "none"
  /\ room' = "none"
  /\ cut' = [s \in {t \in 1..Len(sessions) : ChunksLeft(sessions[t])}
               |-> Len(sessions[s].sent)]
  /\ UNCHANGED <<senderVars, channel, receiverVars>>

(* ----------------------------- receiver -------------------------------- *)
\* new Blob(fileBuf) with download.href and download.download set from it.
Exposed(buf, info) == [href |-> buf, download |-> info.name]

KeepCollectingInclusive(soFar, n) == n # NaN /\ (n = Infinity \/ soFar <= n)

\* The test `chunksSoFar < nChunks` after the increment; a comparison with
\* NaN is false and every count is below Infinity.
KeepCollecting(soFar, n) == n # NaN /\ (n = Infinity \/ soFar < n)

AfterCompletionKeepsBuf(buf) ==
  [chunksSoFar |-> 0, fileBuf |-> buf, fileInfo |-> null, nChunks |-> 0]

\* The closure variables as the listener leaves them after exposing a file.
AfterCompletion(buf) ==
  [chunksSoFar |-> 0, fileBuf |-> <<>>, fileInfo |-> null, nChunks |-> 0]

AfterSyntaxErrorBuffers(buf, data) == Append(buf, data)

\* fileBuf when JSON.parse has thrown: the listener ends at the throw, before
\* the push.
AfterSyntaxError(buf, data) == buf

PushFront(buf, data) == <<data>> \o buf

\* fileBuf.push(data).
Push(buf, data) == Append(buf, data)

\* The 'message' listener, run on the oldest message in flight.
Message ==
  /\ Len(channel) > 0
  /\ channel' = Tail(channel)
  /\ LET data == Head(channel) IN
     IF fileInfo = null
     THEN IF data.type = "text"
          THEN \* JSON.parse succeeds
               LET info == JSONparse(data.text) IN
               /\ fileInfo' = info
               /\ nChunks' = Ceil(ToNumber(info.size), ToNumber(info.chunkSize))
               /\ since' = [info |-> info,
                            n |-> Ceil(ToNumber(info.size), ToNumber(info.chunkSize)),
                            msgs |-> <<>>, exposed |-> 0]
               /\ last' = [msg |-> data, did |-> "metadata", soFar |-> 0, of |-> 0]
               /\ UNCHANGED <<chunksSoFar, fileBuf, download, nCompleted>>
          ELSE \* JSON.parse("[object ArrayBuffer]") throws a SyntaxError
               /\ since' = [since EXCEPT !.msgs = Append(@, data)]
               /\ last' = [msg |-> data, did |-> "threw", soFar |-> 0, of |-> 0]
               /\ fileBuf' = AfterSyntaxError(fileBuf, data)
               /\ UNCHANGED <<fileInfo, nChunks, chunksSoFar, download, nCompleted>>
     ELSE LET buf == Push(fileBuf, data)
              soFar == chunksSoFar + 1
          IN IF KeepCollecting(soFar, nChunks)
             THEN /\ fileBuf' = buf
                  /\ chunksSoFar' = soFar
                  /\ since' = [since EXCEPT !.msgs = Append(@, data)]
                  /\ last' = [msg |-> data, did |-> "pushed", soFar |-> soFar,
                              of |-> nChunks]
                  /\ UNCHANGED <<fileInfo, nChunks, download, nCompleted>>
             ELSE LET after == AfterCompletion(buf) IN
                  /\ download' = Exposed(buf, fileInfo)
                  /\ nCompleted' = nCompleted + 1
                  /\ since' = [since EXCEPT !.msgs = Append(@, data),
                                            !.exposed = @ + 1]
                  /\ last' = [msg |-> data, did |-> "exposed", soFar |-> soFar,
                              of |-> nChunks]
                  /\ chunksSoFar' = after.chunksSoFar
                  /\ fileBuf' = after.fileBuf
                  /\ fileInfo' = after.fileInfo
                  /\ nChunks' = after.nChunks
  /\ UNCHANGED <<senderVars, pageVars>>

(* --------------------------- specification ----------------------------- *)
\* The page with its listeners installed and nothing picked or received.
Start ==
  /\ sessions = <<>>
  /\ channel = <<>>
  /\ fileInfo = null
  /\ nChunks = 0
  /\ chunksSoFar = 0
  /\ fileBuf = <<>>
  /\ download = null
  /\ interleaved = FALSE
  /\ since = [info |-> null, n |-> 0, msgs |-> <<>>, exposed |-> 0]
  /\ last = [msg |-> null, did |-> "nothing", soFar |-> 0, of |-> 0]
  /\ nCompleted = 0
  /\ room = "connected"
  /\ cut = <<>>

Init == params \in getURLParameters /\ Start

\* The page opened under any URL.
InitURL == params \in AnyURLParameters /\ Start

Next ==
  \/ \E file \in Files : Change(file)
  \/ \E s \in 1..Len(sessions) : ReadLoaded(s)
  \/ \E s \in 1..Len(sessions) : TimerFired(s)
  \/ Message

Spec == Init /\ [][Next]_vars

\* The same program followed over more 'change' events.
NextMore ==
  \/ \E file \in Files : ChangeMore(file)
  \/ \E s \in 1..Len(sessions) : ReadLoaded(s)
  \/ \E s \in 1..Len(sessions) : TimerFired(s)
  \/ Message

SpecMore == Init /\ [][NextMore]_vars

\* One 'change' event only.
ChangeOnce(file) == sendFile(file, 1)

\* A channel that does not keep the order: two neighbouring chunks in flight
\* change places.
Swap(i) ==
  /\ i + 1 <= Len(channel)
  /\ channel[i].type = "binary" /\ channel[i + 1].type = "binary"
  /\ channel[i] # channel[i + 1]
  /\ channel' = [channel EXCEPT ![i] = channel[i + 1], ![i + 1] = channel[i]]
  /\ UNCHANGED <<senderVars, receiverVars, pageVars>>

\* One transfer over a channel that may permute its chunks.
NextReorder ==
  \/ \E file \in Files : ChangeOnce(file)
  \/ \E s \in 1..Len(sessions) : ReadLoaded(s)
  \/ \E s \in 1..Len(sessions) : TimerFired(s)
  \/ \E i \in 1..(Len(channel) - 1) : Swap(i)
  \/ Message

SpecReorder == Init /\ [][NextReorder]_vars

\* One transfer under any URL.
NextOnce ==
  \/ \E file \in Files : ChangeOnce(file)
  \/ \E s \in 1..Len(sessions) : ReadLoaded(s)
  \/ \E s \in 1..Len(sessions) : TimerFired(s)
  \/ Message

SpecURL == InitURL /\ [][NextOnce]_vars

\* One transfer, with the page's connect and disconnect buttons and a file
\* source that may fail.
NextEvents ==
  \/ \E file \in Files : ChangeOnce(file)
  \/ \E s \in 1..Len(sessions) : ReadLoaded(s)
  \/ \E s \in 1..Len(sessions) : ReadFailed(s)
  \/ \E s \in 1..Len(sessions) : TimerFired(s)
  \/ ConnectClick
  \/ Connected
  \/ Disconnect
  \/ Message

SpecEvents == Init /\ [][NextEvents]_vars

(* ------------------------ notions the claims use ----------------------- *)
IsBinary(m) == m.type = "binary"
IsText(m) == m.type = "text"

\* The chunks an invocation has sent: its messages after the first.
ChunksSent(ses) == SubSeq(ses.sent, 2, Len(ses.sent))

\* The bytes of a sequence of binary messages, concatenated.
RECURSIVE ConcatBytes(_)
ConcatBytes(msgs) ==
  IF Len(msgs) = 0 THEN <<>>
  ELSE ConcatBytes(SubSeq(msgs, 1, Len(msgs) - 1)) \o msgs[Len(msgs)].bytes

\* n = ceil(S / C), stated without the division.
IsCeil(n, S, C) == n >= 0 /\ n * C >= S /\ (n - 1) * C < S

Finished(ses) == ses.pc = "done"

\* The receiver's closure variables as trackAdded initialises them.
ReceiverInitial ==
  /\ fileInfo = null
  /\ chunksSoFar = 0
  /\ fileBuf = <<>>
  /\ nChunks = 0

\* Nothing is left to happen: every invocation returned, every message handled.
Quiescent ==
  /\ \A s \in 1..Len(sessions) : Finished(sessions[s])
  /\ channel = <<>>

\* The download element shows exactly this file.
Shows(file) ==
  /\ download # null
  /\ download.download = file.name
  /\ \A i \in 1..Len(download.href) : IsBinary(download.href[i])
  /\ ConcatBytes(download.href) = file.bytes
  /\ Len(ConcatBytes(download.href)) = file.size

(* ------------------------------- C1 ------------------------------------ *)
\* C1: when the messages of one sendFile have all been handled, in send
\* order, by a fresh receiver, the receiver has exposed one file whose bytes,
\* name and size are those of the file sent (for every size >= 0).
C1_RoundTrip ==
  (Len(sessions) = 1 /\ Quiescent) => (nCompleted = 1 /\ Shows(sessions[1].file))

(* ------------------------------- C2 ------------------------------------ *)
\* C2: the first message every sendFile invocation sends is a text frame
\* that encodes its {name, size, chunkSize}, and every message it sends
\* after that one is binary: one metadata frame, before any chunk.
C2_MetadataFirstAndOnce ==
  \A s \in 1..Len(sessions) :
    LET ses == sessions[s] IN
    /\ Len(ses.sent) >= 1
    /\ IsText(ses.sent[1])
    /\ JSONparse(ses.sent[1].text) =
         [name |-> ses.file.name, size |-> ses.file.size, chunkSize |-> ses.chunkSize]
    /\ \A i \in 2..Len(ses.sent) : IsBinary(ses.sent[i])

C2_Witness ==
  \E s \in 1..Len(sessions) : Finished(sessions[s]) /\ Len(sessions[s].sent) >= 3

(* ------------------------------- C3 ------------------------------------ *)
\* C3: a sendFile invocation that has returned has sent exactly
\* ceil(size / chunkSize) binary messages (none for size 0), and that is the
\* number the receiver computes from the invocation's metadata frame; the
\* nChunks the receiver holds is the ceil of the metadata it parsed.
C3_ChunkCount ==
  /\ \A s \in 1..Len(sessions) :
       LET ses == sessions[s]
           info == JSONparse(ses.sent[1].text)
       IN Finished(ses) =>
            /\ IsCeil(Len(ChunksSent(ses)), ses.file.size, ses.chunkSize)
            /\ Len(ChunksSent(ses)) = Ceil(info.size, info.chunkSize)
            /\ Len(ChunksSent(ses)) = ses.nChunks
            /\ (ses.file.size = 0 => Len(ChunksSent(ses)) = 0)
  /\ fileInfo # null => IsCeil(nChunks, fileInfo.size, fileInfo.chunkSize)

C3_Witness ==
  /\ \E s \in 1..Len(sessions) :
       /\ Finished(sessions[s])
       /\ sessions[s].file.size = 3
       /\ sessions[s].chunkSize = 2
       /\ Len(ChunksSent(sessions[s])) = 2
  /\ fileInfo # null
  /\ nChunks = 2

(* ------------------------------- C4 ------------------------------------ *)
\* C4: the k-th chunk an invocation sends (k = 0, 1, ...) holds exactly the
\* bytes [k*C, min((k+1)*C, S)) of the file; once the invocation has
\* returned, every chunk but the last has length C, the last has length
\* S - C*(n - 1), which is in 1..C, and the lengths add up to S.
C4_ChunkRanges ==
  \A s \in 1..Len(sessions) :
    LET ses == sessions[s]
        S == ses.file.size
        C == ses.chunkSize
        chunks == ChunksSent(ses)
        n == Len(chunks)
    IN /\ \A k \in 0..(n - 1) :
            chunks[k + 1].bytes = SubSeq(ses.file.bytes, k * C + 1, Min((k + 1) * C, S))
       /\ (Finished(ses) /\ S > 0) =>
            /\ n >= 1
            /\ \A k \in 0..(n - 2) : Len(chunks[k + 1].bytes) = C
            /\ Len(chunks[n].bytes) = S - C * (n - 1)
            /\ Len(chunks[n].bytes) \in 1..C
            /\ Len(ConcatBytes(chunks)) = S

C4_Witness ==
  \E s \in 1..Len(sessions) :
    /\ Finished(sessions[s])
    /\ sessions[s].file.size = 3
    /\ sessions[s].chunkSize = 2
    /\ Len(sessions[s].sent[3].bytes) = 1

(* ------------------------------- C5 ------------------------------------ *)
\* C5: once the receiver has parsed a metadata frame that declares size 0,
\* the transfer is complete on that message: the empty file is exposed under
\* its name and the closure variables are back to their initial values.
C5_ZeroSizeCompletesOnMetadata ==
  (last.did = "metadata" /\ JSONparse(last.msg.text).size = 0) =>
    /\ ReceiverInitial
    /\ download # null
    /\ download = Exposed(<<>>, JSONparse(last.msg.text))

RECURSIVE TotalSent(_)
TotalSent(k) == IF k = 0 THEN 0 ELSE TotalSent(k - 1) + Len(sessions[k].sent)

\* C7: a completion leaves the closure variables at their initial values;
\* and when files of size >= 1 are sent one after another, the receiver has
\* exposed one file per transfer whose messages it has handled, the latest
\* being that transfer's own name and bytes, so that in the end every
\* transfer was completed, in send order.
C7_SequentialTransfers ==
  /\ last.did = "exposed" => ReceiverInitial
  /\ (~interleaved /\ \A s \in 1..Len(sessions) : sessions[s].file.size >= 1) =>
       /\ nCompleted =
            Cardinality({k \in 1..Len(sessions) :
               TotalSent(k - 1) + 1 + Ceil(sessions[k].file.size, sessions[k].chunkSize)
                 <= TotalSent(Len(sessions)) - Len(channel)})
       /\ nCompleted >= 1 => Shows(sessions[nCompleted].file)
       /\ Quiescent => (nCompleted = Len(sessions) /\ ReceiverInitial)

C7_Witness ==
  /\ ~interleaved
  /\ Len(sessions) = 2
  /\ sessions[1].file.size = 3
  /\ sessions[2].file.size = 2
  /\ sessions[1].chunkSize = 2
  /\ Quiescent
  /\ nCompleted = 2

(* ------------------------------- C8 ------------------------------------ *)
\* C8: when transfers (zero-size ones included) are sent one after another,
\* no text frame is ever in the chunk buffer or in an exposed file, and no
\* binary frame is ever handed to the metadata parser.
C8_FramesToldApartByType ==
  ~interleaved =>
    /\ \A i \in 1..Len(fileBuf) : IsBinary(fileBuf[i])
    /\ download # null => \A i \in 1..Len(download.href) : IsBinary(download.href[i])
    /\ last.did \in {"metadata", "threw"} => IsText(last.msg)

(* ------------------------------- C9 ------------------------------------ *)
\* C9: in every step, no progress counter of the sender decreases, none
\* exceeds its nChunks, and it equals nChunks when the invocation has
\* returned; the receiver's counter does not decrease within a transfer,
\* the progress it reports never exceeds nChunks, and it equals nChunks when
\* the file is exposed.
C9_Progress ==
  [][/\ \A s \in 1..Len(sessions) :
          /\ sessions'[s].chunksSoFar >= sessions[s].chunksSoFar
          /\ sessions'[s].chunksSoFar <= sessions'[s].nChunks
          /\ Finished(sessions'[s]) => sessions'[s].chunksSoFar = sessions'[s].nChunks
     /\ (fileInfo # null /\ fileInfo' # null) => chunksSoFar' >= chunksSoFar
     /\ chunksSoFar' <= nChunks'
     /\ last'.did \in {"pushed", "exposed"} => last'.soFar <= last'.of
     /\ last'.did = "exposed" => last'.soFar = last'.of]_vars

(* ------------------------------- C10 ----------------------------------- *)
\* C10: at most one sendFile invocation at a time has chunks left to send,
\* and none was started while an earlier one had.
C10_OneSessionAtATime ==
  /\ Cardinality({s \in 1..Len(sessions) : ChunksLeft(sessions[s])}) <= 1
  /\ ~interleaved

(* ------------------------------- C11 ----------------------------------- *)
\* A parameter value that is a number written in digits.
IsNumeric(str) == \A i \in 1..Len(str) : IsDigit(str[i])

\* The value the claim gives a parameter: that of its digits, and the
\* default when the key is absent or the value is not numeric.
Resolved(p, key, default) ==
  IF key \in DOMAIN p /\ IsNumeric(p[key]) THEN Decimal(p[key]) ELSE default

\* C11: every sendFile invocation runs with chunkSize and chunkInterval
\* resolved from the URL parameters: the numeric value when the key is
\* there with a numeric string, and the default (16384, 0) when the key is
\* absent or its value is not numeric; chunkSize is then a number.
C11_ParameterResolution ==
  \A s \in 1..Len(sessions) :
    /\ sessions[s].chunkSize = Resolved(params, "chunkSize", DEFAULT_CHUNK_SIZE_BYTES)
    /\ sessions[s].chunkInterval = Resolved(params, "chunkInterval", DEFAULT_CHUNK_INTERVAL_MS)
    /\ sessions[s].chunkSize # NaN

(* ------------------------------- C12 ----------------------------------- *)
\* C12: when the nChunks messages handled after a metadata frame are all
\* binary and their byte lengths do not add up to the size that frame
\* declares, the receiver exposes no file for that transfer.
C12_SizeMismatch ==
  (/\ since.n >= 1
   /\ Len(since.msgs) >= since.n
   /\ \A i \in 1..since.n : IsBinary(since.msgs[i])
   /\ Len(ConcatBytes(SubSeq(since.msgs, 1, since.n))) # since.info.size)
  => since.exposed = 0

(* ------------------------------- C13 ----------------------------------- *)
\* The listener runs on the oldest message in flight.
Handled == Len(channel) > 0 /\ channel' = Tail(channel)

\* C13: when the listener handles a binary message while fileInfo is null,
\* JSON.parse throws; the message is neither pushed to fileBuf nor taken as
\* metadata, nothing is exposed, and the closure variables stay at their
\* initial values.
C13_PrematureChunk ==
  [][(Handled /\ fileInfo = null /\ IsBinary(Head(channel))) =>
       /\ last'.did = "threw"
       /\ last'.msg = Head(channel)
       /\ fileInfo' = null
       /\ fileBuf' = <<>>
       /\ chunksSoFar' = 0
       /\ nChunks' = 0
       /\ download' = download
       /\ nCompleted' = nCompleted]_vars

C13_Witness ==
  /\ last.did = "threw"
  /\ IsBinary(last.msg)
  /\ Len(last.msg.bytes) >= 1
  /\ ReceiverInitial

(* ------------------------------- C14 ----------------------------------- *)
\* Metadata as the claim wants it: size a number >= 0, chunkSize a number >= 1.
WellFormed(info) ==
  /\ info.size # JSONnull /\ info.size >= 0
  /\ info.chunkSize # JSONnull /\ info.chunkSize >= 1

\* C14: when the metadata frame the receiver has parsed is not well formed
\* (chunkSize null, as NaN is written, or 0), the receiver exposes no file for
\* it and its closure variables are at their initial values.
C14_MalformedMetadata ==
  (since.info # null /\ ~WellFormed(since.info)) =>
    /\ since.exposed = 0
    /\ ReceiverInitial

(* ------------------------------- C15 ----------------------------------- *)
\* C15: in every step and for every sendFile invocation: it is at one place
\* only, and goes from reading to waiting, and from waiting to reading or
\* done; it sends only when its read completes, one message, the chunk at
\* its offset, and the timer starts with that send; its offset changes only
\* when the timer has fired, and grows; so before the read of chunk k+1
\* starts, chunks 0..k have been sent, and the chunk being read or last sent
\* is the one at the invocation's offset.
C15_StrictSequencing ==
  [][\A s \in 1..Len(sessions) :
       LET old == sessions[s]
           new == sessions'[s]
           C == old.chunkSize
       IN /\ <<old.pc, new.pc>> \in {<<"reading", "reading">>, <<"reading", "waiting">>,
                                      <<"waiting", "waiting">>, <<"waiting", "reading">>,
                                      <<"waiting", "done">>, <<"done", "done">>}
          /\ new.sent # old.sent =>
               /\ old.pc = "reading" /\ new.pc = "waiting"
               /\ new.offset = old.offset
               /\ new.sent = Append(old.sent,
                    BinaryMessage(SubSeq(old.file.bytes, old.offset + 1,
                                         Min(old.offset + C, old.file.size))))
          /\ (old.pc = "reading" /\ new.pc = "waiting") => Len(new.sent) = Len(old.sent) + 1
          /\ new.offset # old.offset =>
               /\ old.pc = "waiting" /\ new.pc # "waiting"
               /\ new.offset = old.offset + C
               /\ new.offset > old.offset
          /\ (old.pc = "waiting" /\ new.pc # "waiting") => new.offset # old.offset
          /\ new.pc = "reading" => new.offset = C * Len(ChunksSent(new))
          /\ new.pc = "waiting" => new.offset = C * (Len(ChunksSent(new)) - 1)]_vars

C15_Witness ==
  \E s \in 1..Len(sessions) :
    /\ sessions[s].pc = "reading"
    /\ sessions[s].offset = 2
    /\ Len(ChunksSent(sessions[s])) = 2
    /\ sessions[s].chunkSize = 1

(* ------------------------------- C16 ----------------------------------- *)
\* C16: for every size and every chunkSize the URL can give, each time a
\* sendFile invocation goes round its loop its offset has grown, so that it
\* ends within `size` rounds; and it sends a message only while the
\* chunks it has sent do not yet cover the file.
C16_SenderTermination ==
  [][\A s \in 1..Len(sessions) :
       LET old == sessions[s]
           new == sessions'[s]
       IN /\ (old.pc = "waiting" /\ new.pc = "reading") => new.offset > old.offset
          /\ Len(new.sent) > Len(old.sent) =>
               Len(ConcatBytes(ChunksSent(old))) < old.file.size]_vars

(* ------------------------------- C17 ----------------------------------- *)
\* C17: a sendFile invocation that had chunks left to send when the page
\* disconnected calls dataTrack.send no more: it has sent what it had sent
\* at the disconnect.
C17_Cancellation ==
  \A s \in DOMAIN cut : Len(sessions[s].sent) = cut[s]

(* ------------------------------- C18 ----------------------------------- *)
\* C18: no sendFile invocation stays at the await of a read that has
\* failed: after the failure it has ended.
C18_ReadFailure ==
  \A s \in 1..Len(sessions) : sessions[s].pc # "suspended"

(* ------------------------------- C19 ----------------------------------- *)
\* C19: between two runs of the listener, fileInfo = null implies
\* chunksSoFar = 0, fileBuf empty and nChunks = 0; and fileInfo # null
\* implies chunksSoFar = Len(fileBuf) and chunksSoFar < nChunks.
C19_ReceiverStateInvariant ==
  /\ fileInfo = null => (chunksSoFar = 0 /\ fileBuf = <<>> /\ nChunks = 0)
  /\ fileInfo # null => (chunksSoFar = Len(fileBuf) /\ chunksSoFar < nChunks)

(* ------------------------------- C20 ----------------------------------- *)
\* The messages of p are those of q, each as often.
SameMessages(p, q) ==
  /\ Len(p) = Len(q)
  /\ \A i \in 1..Len(p) :
       Cardinality({j \in 1..Len(p) : p[j] = p[i]}) =
       Cardinality({j \in 1..Len(q) : q[j] = p[i]})

\* C20: fileBuf is the messages handled since the metadata frame, in the
\* order they arrived, none dropped, merged or moved; the exposed file is
\* made of the first nChunks of them in that order. For one transfer over a
\* channel that permutes chunks, the exposed file is the chunks sent, in the
\* order delivered, and when that order is not the send order its bytes are
\* not those of the file sent.
C20_ArrivalOrder ==
  /\ fileInfo # null => fileBuf = since.msgs
  /\ since.exposed >= 1 => download.href = SubSeq(since.msgs, 1, Len(download.href))
  /\ (Len(sessions) = 1 /\ since.exposed >= 1) =>
       LET sent == ChunksSent(sessions[1]) IN
       /\ SameMessages(download.href, sent)
       /\ download.href # sent => ConcatBytes(download.href) # sessions[1].file.bytes

C20_Witness ==
  /\ Len(sessions) = 1
  /\ last.did = "exposed"
  /\ Len(download.href) = 3
  /\ download.href # ChunksSent(sessions[1])
  /\ download.href = since.msgs
  /\ ConcatBytes(download.href) # sessions[1].file.bytes

====
